---- MODULE Spec2Model ----
(***************************************************************************)
(* A model of the GLL parser runtime of src/runtime.rs: the thread         *)
(* scheduler (Threads), the graph-structured stack (GraphStack), the       *)
(* memoizer (Memoizer) and the driver API (Runtime) that the generated     *)
(* step functions call.  A parse is the loop of Runtime::parse: steal a    *)
(* thread, run the step of its code label, until the queue drains.         *)
(*                                                                         *)
(* The step functions are not part of the runtime (they are generated      *)
(* code, CodeStep::step).  Here a step is a finite list of runtime         *)
(* operations executed in order; a grammar is a map from code labels to    *)
(* such lists.  The grammars of the model are listed under "Grammars".     *)
(***************************************************************************)
EXTENDS Integers, Sequences, FiniteSets, Bags, TLC

VARIABLES
    gr,         \* the grammar, the input and the label order of this parse
    pc,         \* "start" | "loop" | "step" | "done" | "aborted"
    queue,      \* Threads::queue, a bag of threads
    seen,       \* Threads::seen, a set of threads
    returns,    \* GraphStack::returns, Call -> set of Continuation
    lengths,    \* Memoizer::lengths, Call -> set of lengths
    rt,         \* the Runtime view of the step being run
    taken,      \* the node held by the step after take_saved()
    ip,         \* the position of the step in its list of operations
    root,       \* the value parse returns
    lastOp,     \* history: the operation executed last
    lastSpawns, \* history: the calls of Threads::spawn it made, in order
    inserted,   \* history: what its BTreeSet::insert returned (call, ret)
    spawned,    \* history: every thread ever passed to Threads::spawn
    enqueued,   \* history: every thread ever pushed onto the queue
    stolen,     \* history: every thread steal has returned
    restolen,   \* history: every thread steal has returned more than once
    trace,      \* history: the first spawn and steal of each thread, in order
    seed,       \* the RandomState of the HashMaps of this parse
    first,      \* what an earlier parse of the same arguments ended with
    product,    \* a cursor::Product { a, b0, b }
    iter,       \* the cur of its cursor::IntoIter: "unmade" | "some" | "none"
    yielded     \* history: the items IntoIter::next has returned, in order

vars == <<gr, pc, queue, seen, returns, lengths, rt, taken, ip, root,
          lastOp, lastSpawns, inserted, spawned, enqueued, stolen, restolen,
          trace, seed, first, product, iter, yielded>>

\* The state that no step of a parse changes.
outside == <<seed, first, product, iter, yielded>>

(***************************************************************************)
(* Ranges: half-open intervals [s, e) of input positions.                  *)
(* Range is grammer::input::Range, a wrapper of indexing::Range; its      *)
(* operations are modelled by what they do where runtime.rs calls them.    *)
(***************************************************************************)
Range(s, e) == [s |-> s, e |-> e]

RangeLen(r) == r.e - r.s

\* Range::contains: the point is an index of the range, s <= p < e.
RangeContains(r, p) == r.s <= p /\ p < r.e

\* Range::frontiers: the empty ranges at the two ends.
Frontiers(r) == <<Range(r.s, r.s), Range(r.e, r.e)>>

\* Range::split_at(len) aborts when len exceeds the length of the range.
SplitOk(r, len) == len <= RangeLen(r)

SplitAt(r, len) == <<Range(r.s, r.s + len), Range(r.s + len, r.e)>>

\* Range::join succeeds iff the ranges are adjacent.
JoinOk(a, b) == a.e = b.s

Join(a, b) == Range(a.s, b.e)

\* Ord for Range: lexicographic on (start, end).
RangeLess(a, b) == a.s < b.s \/ (a.s = b.s /\ a.e < b.e)

(***************************************************************************)
(* Nodes, continuations, calls.                                            *)
(***************************************************************************)
NoNode == [some |-> FALSE, kind |-> 0, range |-> Range(0, 0)]

SomeNode(k, r) == [some |-> TRUE, kind |-> k, range |-> r]

\* Ord for Option<Node>: None first, then (kind, range).
SavedLess(a, b) ==
    \/ ~a.some /\ b.some
    \/ /\ a.some /\ b.some
       /\ \/ a.kind < b.kind
          \/ a.kind = b.kind /\ RangeLess(a.range, b.range)

Continuation(c, sv, res) == [code |-> c, saved |-> sv, result |-> res]

\* Ord for C: the order of the code labels of this parse.
CodeLess(a, b) == gr.rank[a] < gr.rank[b]

\* Ord for Continuation: lexicographic on (code, saved, result).
ContLess(a, b) ==
    \/ CodeLess(a.code, b.code)
    \/ a.code = b.code /\ SavedLess(a.saved, b.saved)
    \/ a.code = b.code /\ a.saved = b.saved /\ RangeLess(a.result, b.result)

Call(c, r) == [callee |-> c, range |-> r]

\* Mutant of CallLess: the range compared without Reverse.
CallLessRangeForward(a, b) ==
    \/ RangeLess(a.range, b.range)
    \/ a.range = b.range /\ ContLess(a.callee, b.callee)

\* Mutant of CallLess: Reverse around the whole pair (range, callee).
CallLessPairReversed(a, b) ==
    \/ RangeLess(b.range, a.range)
    \/ a.range = b.range /\ ContLess(b.callee, a.callee)

\* Ord for Call<Continuation>: (Reverse(range), callee).
CallLess(a, b) ==
    \/ RangeLess(b.range, a.range)
    \/ a.range = b.range /\ ContLess(a.callee, b.callee)

\* The greatest element of a non-empty set of threads.
MaxCall(S) == CHOOSE t \in S : \A u \in S : ~CallLess(t, u)

(***************************************************************************)
(* Step functions.  A step is a list of operations of the driver API; each *)
(* operation is a record of the same shape.                                *)
(***************************************************************************)
Op(name, pat, callee, next, kind) ==
    [op |-> name, pat |-> pat, callee |-> callee, next |-> next, kind |-> kind]

OpNamed(name) == Op(name, <<>>, 0, 0, 0)

\* rt.input_consume_left(pat), continuing only on a match
Consume(pat) == Op("consume", pat, 0, 0, 0)

\* rt.spawn(next)
Spawn(next) == Op("spawn", <<>>, 0, next, 0)

\* rt.call(callee, next)
CallOp(callee, next) == Op("call", <<>>, callee, next, 0)

\* rt.ret()
Ret == OpNamed("ret")

\* rt.save(kind)
Save(kind) == Op("save", <<>>, 0, 0, kind)

\* let left = rt.take_saved()
TakeSaved == OpNamed("take_saved")

\* rt.forest_add_split(kind, left)
AddSplit(kind) == Op("forest_add_split", <<>>, 0, 0, kind)

(***************************************************************************)
(* Grammars.  prog[l] is the step of label l, fn[l] is l.enclosing_fn().   *)
(***************************************************************************)
\* The greatest number of repetitions in the inputs of the repetitive grammars.
MaxRep == 2

RECURSIVE Repeat(_, _)
Repeat(unit, n) == IF n = 0 THEN <<>> ELSE unit \o Repeat(unit, n - 1)

Grammar(name, prog, fn, inputs) ==
    [name |-> name, prog |-> prog, fn |-> fn, entry |-> 1, inputs |-> inputs]

\* S -> "a" | "ab"
GAlt ==
    Grammar("alt",
            <<  <<Spawn(2), Spawn(3)>>,
                <<Consume(<<"a">>), Ret>>,
                <<Consume(<<"a", "b">>), Ret>>  >>,
            <<1, 1, 1>>,
            {<<"a", "b">>, <<"a">>, <<"b">>})

\* A -> A "x" | epsilon
GNull ==
    Grammar("null",
            <<  <<Spawn(2), Spawn(3)>>,
                <<CallOp(1, 4)>>,
                <<Ret>>,
                <<Consume(<<"x">>), Ret>>  >>,
            <<1, 1, 1, 1>>,
            {Repeat(<<"x">>, n) : n \in 0..MaxRep})

\* E -> E "+" E | "1"
GExpr ==
    Grammar("expr",
            <<  <<Spawn(2), Spawn(3)>>,
                <<CallOp(1, 4)>>,
                <<Consume(<<"1">>), Ret>>,
                <<Consume(<<"+">>), CallOp(1, 5)>>,
                <<Ret>>  >>,
            <<1, 1, 1, 1, 1>>,
            {<<"1">> \o Repeat(<<"+", "1">>, n) : n \in 0..MaxRep})

\* S -> "a"
GOne ==
    Grammar("one",
            <<  <<Consume(<<"a">>), Ret>>  >>,
            <<1>>,
            {<<"b">>, <<"a">>, <<>>})

\* S -> A A,  A -> "x" | "x" "x"
GShared ==
    Grammar("shared",
            <<  <<CallOp(4, 2)>>,
                <<Save(1), CallOp(4, 3)>>,
                <<TakeSaved, AddSplit(2), Ret>>,
                <<Spawn(5), Spawn(6)>>,
                <<Consume(<<"x">>), Ret>>,
                <<Consume(<<"x", "x">>), Ret>>  >>,
            <<1, 1, 1, 4, 4, 4>>,
            {Repeat(<<"x">>, n) : n \in 0..(MaxRep + 1)})

\* Two steps call the same nonterminal at the same range with the same
\* return continuation.
GDedup ==
    Grammar("dedup",
            <<  <<Spawn(2), Spawn(3)>>,
                <<CallOp(4, 5)>>,
                <<CallOp(4, 5)>>,
                <<Consume(<<"a">>), Ret>>,
                <<Ret>>  >>,
            <<1, 1, 1, 4, 1>>,
            {<<"a">>, <<>>})

\* A second caller that reaches a call after its callee has returned:
\* S -> A | A',  A -> "x" | epsilon, the second alternative of S saving a
\* node before its call.
GLate ==
    Grammar("late",
            <<  <<CallOp(3, 2), Spawn(4)>>,
                <<Ret>>,
                <<Spawn(5), Ret>>,
                <<Save(1), CallOp(3, 2)>>,
                <<Consume(<<"x">>), Ret>>  >>,
            <<1, 1, 3, 1, 3>>,
            {<<>>, <<"x">>})

\* Two callers that have consumed input call the same nonterminal at the
\* same range, one of them possibly after the callee has returned:
\* S -> "x" A | "x" A,  A -> "x" | epsilon.
GAfter ==
    Grammar("after",
            <<  <<Consume(<<"x">>), Spawn(2), CallOp(3, 4)>>,
                <<CallOp(3, 5)>>,
                <<Spawn(6), Ret>>,
                <<Ret>>,
                <<Ret>>,
                <<Consume(<<"x">>), Ret>>  >>,
            <<1, 1, 3, 1, 1, 3>>,
            {<<"x">>, <<"x", "x">>})

\* A continuation that returns to the entry label of its own callee.
GSelf ==
    Grammar("self",
            <<  <<CallOp(1, 1), Consume(<<"a">>), Ret>>  >>,
            <<1>>,
            {<<>>, <<"a">>, <<"a", "a">>})

\* A label whose step spawns itself.
GLoop ==
    Grammar("loop",
            <<  <<Spawn(1)>>  >>,
            <<1>>,
            {<<>>, <<"a">>})

\* Generated code that breaks the precondition of save / take_saved.
GSaveTwice ==
    Grammar("save_twice",
            <<  <<Save(1), Save(1), Ret>>  >>,
            <<1>>,
            {<<>>, <<"a">>})

GTakeEmpty ==
    Grammar("take_empty",
            <<  <<TakeSaved, Ret>>  >>,
            <<1>>,
            {<<>>, <<"a">>})

\* Every pair of steps of one or two operations over two labels, each the
\* entry of its own nonterminal: step functions that no grammar need
\* generate, but that the CodeStep trait admits.
SmallOps ==
    {Spawn(1), Spawn(2), CallOp(1, 2), CallOp(2, 1), Ret, Consume(<<"a">>), Save(1)}

SmallSteps == {<<a>> : a \in SmallOps} \cup {<<a, b>> : a, b \in SmallOps}

SmallGrammars ==
    {Grammar("small", <<s1, s2>>, <<1, 2>>, {<<>>, <<"a">>}) :
        s1, s2 \in SmallSteps}

Grammars ==
    {GAlt, GNull, GExpr, GOne, GShared, GDedup, GLate, GAfter, GSelf, GLoop,
     GSaveTwice, GTakeEmpty} \cup SmallGrammars

Labels(g) == DOMAIN g.prog

\* Every order of the code labels: the bijections label -> rank.
Orders(g) ==
    {f \in [Labels(g) -> Labels(g)] : \A a, b \in Labels(g) : f[a] = f[b] => a = b}

\* The kind of the root node that parse is asked for.
RootKind == 9

(***************************************************************************)
(* Threads: the scheduler.                                                 *)
(***************************************************************************)
\* Threads::spawn on th = [queue, seen]: push t unless seen holds it.
ThreadsSpawn(th, t) ==
    IF t \in th.seen
    THEN th
    ELSE [seen |-> th.seen \cup {t}, queue |-> th.queue (+) SetToBag({t})]

\* A sequence of Threads::spawn calls, in order.
RECURSIVE SpawnEach(_, _)
SpawnEach(th, ts) ==
    IF ts = <<>> THEN th ELSE SpawnEach(ThreadsSpawn(th, Head(ts)), Tail(ts))

\* Mutant of HeapPop: the heap gives its least element.
HeapPopLeast(q) ==
    CHOOSE t \in BagToSet(q) : \A u \in BagToSet(q) : ~CallLess(u, t)

\* BinaryHeap::pop: the greatest pending thread.
HeapPop(q) == MaxCall(BagToSet(q))

\* The loop of Threads::steal: drop the greatest entry of seen while the
\* range of the stolen thread t does not contain its start.
RECURSIVE CollectSeen(_, _)
CollectSeen(sn, t) ==
    IF sn = {}
    THEN sn
    ELSE LET old == MaxCall(sn)
         IN  IF RangeContains(t.range, old.range.s)
             THEN sn
             ELSE CollectSeen(sn \ {old}, t)

(***************************************************************************)
(* Memoizer.                                                               *)
(***************************************************************************)
LengthsOf(call) == IF call \in DOMAIN lengths THEN lengths[call] ELSE {}

ReturnsOf(call) == IF call \in DOMAIN returns THEN returns[call] ELSE {}

\* Mutant of LastLength: the first element instead of the last.
LastLengthFirst(ls) == CHOOSE l \in ls : \A m \in ls : l <= m

\* The last element of the sorted set of lengths.
LastLength(ls) == CHOOSE l \in ls : \A m \in ls : m <= l

\* Memoizer::longest_result: the prefix of the greatest recorded length.
LongestResult(call) ==
    IF LengthsOf(call) = {}
    THEN NoNode
    ELSE SomeNode(RootKind, SplitAt(call.range, LastLength(LengthsOf(call)))[1])

\* The iteration order of BTreeSet<usize>.
RECURSIVE LengthsAsc(_)
LengthsAsc(ls) ==
    IF ls = {}
    THEN <<>>
    ELSE LET m == CHOOSE l \in ls : \A k \in ls : l <= k
         IN  <<m>> \o LengthsAsc(ls \ {m})

\* Mutant of ContsAsc: the continuations of a call kept in a HashSet, which
\* iterates in an order its RandomState decides.
RECURSIVE ContsInHashOrder(_)
ContsInHashOrder(cs) ==
    IF cs = {}
    THEN <<>>
    ELSE LET m == CHOOSE c \in cs :
                      IF seed = 0
                      THEN \A d \in cs : ~ContLess(d, c)
                      ELSE \A d \in cs : ~ContLess(c, d)
         IN  <<m>> \o ContsInHashOrder(cs \ {m})

\* The iteration order of BTreeSet<Continuation>.
RECURSIVE ContsAsc(_)
ContsAsc(cs) ==
    IF cs = {}
    THEN <<>>
    ELSE LET m == CHOOSE c \in cs : \A d \in cs : ~ContLess(d, c)
         IN  <<m>> \o ContsAsc(cs \ {m})

(***************************************************************************)
(* Cursors (mod cursor).  A cursor is at one of its positions; read writes *)
(* the part of the item the position stands for, advance moves on.         *)
(***************************************************************************)
\* The greatest number of positions of the cursors a product is made of.
MaxPos == 4

\* A FlattenIter over len cursors Once, at the first of them.
Flat(len) == [pos |-> 1, len |-> len]

\* FlattenIter::read: the read of the current Once.
FlatRead(c) == c.pos

\* FlattenIter::advance: Once::advance is false, so the iterator moves to
\* its next cursor, if it has one.
FlatAdvance(c) ==
    IF c.pos < c.len
    THEN [ok |-> TRUE, cur |-> [c EXCEPT !.pos = c.pos + 1]]
    ELSE [ok |-> FALSE, cur |-> c]

\* Product::new
Product(a, b) == [a |-> a, b0 |-> b, b |-> b]

\* Product::read: a, then b, each writes its part of out.
ProductRead(p) == <<FlatRead(p.a), FlatRead(p.b)>>

\* Mutant of ProductAdvance: b is not reset when a advances.
ProductAdvanceKeepsB(p) ==
    LET b == FlatAdvance(p.b)
    IN  IF b.ok
        THEN [ok |-> TRUE, cur |-> [p EXCEPT !.b = b.cur]]
        ELSE LET a == FlatAdvance(p.a)
             IN  [ok |-> a.ok, cur |-> [p EXCEPT !.a = a.cur]]

\* Product::advance
ProductAdvance(p) ==
    LET b == FlatAdvance(p.b)
    IN  IF b.ok
        THEN [ok |-> TRUE, cur |-> [p EXCEPT !.b = b.cur]]
        ELSE LET a == FlatAdvance(p.a)
             IN  [ok |-> a.ok, cur |-> [p EXCEPT !.b = p.b0, !.a = a.cur]]

(***************************************************************************)
(* The state of a parse.                                                   *)
(***************************************************************************)
NoRt == [current |-> 0, saved |-> NoNode, result |-> Range(0, 0),
         remaining |-> Range(0, 0)]

\* The call parse starts with: the entry label on the whole input.
EntryCall == Call(gr.entry, Range(0, Len(gr.input)))

\* The entry thread of a call: the callee, nothing saved, nothing consumed.
EntryThread(call) ==
    Call(Continuation(call.callee, NoNode, Frontiers(call.range)[1]), call.range)

\* The RandomState a HashMap::new() may draw: each is an iteration order
\* of the maps; the first parse of a process draws the first.
HashSeeds == {0, 1}

\* No earlier parse has returned.
NoRun == [ran |-> FALSE, trace |-> <<>>, restolen |-> {}, returns |-> << >>,
          lengths |-> << >>, root |-> NoNode]

InitWith(gs) ==
    /\ \E g \in gs : \E inp \in g.inputs : \E ord \in Orders(g) :
           gr = [name |-> g.name, prog |-> g.prog, fn |-> g.fn,
                 entry |-> g.entry, input |-> inp, rank |-> ord]
    /\ pc = "start"
    /\ queue = EmptyBag
    /\ seen = {}
    /\ returns = << >>
    /\ lengths = << >>
    /\ rt = NoRt
    /\ taken = NoNode
    /\ ip = 0
    /\ root = NoNode
    /\ lastOp = OpNamed("new")
    /\ lastSpawns = <<>>
    /\ inserted = FALSE
    /\ spawned = {}
    /\ enqueued = {}
    /\ stolen = {}
    /\ restolen = {}
    /\ trace = <<>>
    /\ seed = 0
    /\ first = NoRun
    /\ product = Product(Flat(1), Flat(1))
    /\ iter = "unmade"
    /\ yielded = <<>>

Init == InitWith(Grammars)

SeqElems(ts) == {ts[i] : i \in DOMAIN ts}

\* The greatest number of copies of one thread the queue of the model holds:
\* a parse that would push more is not followed further.
MaxCopies == 2

\* The history tr with those of the events evs it does not hold yet, in
\* order: it keeps the first spawn and the first steal of each thread.
RECURSIVE Recorded(_, _)
Recorded(tr, evs) ==
    IF evs = <<>>
    THEN tr
    ELSE Recorded(IF Head(evs) \in SeqElems(tr) THEN tr ELSE Append(tr, Head(evs)),
                  Tail(evs))

\* The calls of Threads::spawn an operation makes, with their history.
Emit(ts) ==
    LET th == SpawnEach([queue |-> queue, seen |-> seen], ts)
    IN  /\ \A t \in BagToSet(th.queue) : CopiesIn(t, th.queue) <= MaxCopies
        /\ queue' = th.queue
        /\ seen' = th.seen
        /\ lastSpawns' = ts
        /\ trace' = Recorded(trace, [i \in DOMAIN ts |->
                                       [ev |-> "spawn", thread |-> ts[i]]])
        /\ spawned' = spawned \cup SeqElems(ts)
        /\ enqueued' = enqueued \cup
               {t \in SeqElems(ts) : CopiesIn(t, th.queue) > CopiesIn(t, queue)}

\* The parse aborts (a panic): nothing of its state is used afterwards.
Abort(o) ==
    /\ pc' = "aborted"
    /\ lastOp' = o
    /\ lastSpawns' = <<>>
    /\ inserted' = FALSE
    /\ UNCHANGED <<outside, trace, gr, queue, seen, returns, lengths, rt, taken, ip, root,
                   spawned, enqueued, stolen, restolen>>

\* The running step is at an operation, CurOp.
InStep == pc = "step" /\ ip \in DOMAIN gr.prog[rt.current]

CurOp == gr.prog[rt.current][ip]

\* parse: spawn the entry thread.
ParseStart ==
    /\ pc = "start"
    /\ Emit(<<EntryThread(EntryCall)>>)
    /\ pc' = "loop"
    /\ lastOp' = OpNamed("parse")
    /\ inserted' = FALSE
    /\ UNCHANGED <<outside, gr, returns, lengths, rt, taken, ip, root, stolen, restolen>>

\* parse: steal returns a thread, whose step is dispatched.
Steal ==
    /\ pc = "loop"
    /\ queue # EmptyBag
    /\ LET t == HeapPop(queue)
       IN  /\ queue' = queue (-) SetToBag({t})
           /\ seen' = CollectSeen(seen, t)
           /\ rt' = [current |-> t.callee.code, saved |-> t.callee.saved,
                     result |-> t.callee.result, remaining |-> t.range]
           /\ stolen' = stolen \cup {t}
           /\ restolen' = IF t \in stolen THEN restolen \cup {t} ELSE restolen
           /\ trace' = Recorded(trace, <<[ev |-> "steal", thread |-> t]>>)
    /\ pc' = "step"
    /\ ip' = 1
    /\ taken' = NoNode
    /\ lastOp' = OpNamed("steal")
    /\ inserted' = FALSE
    /\ lastSpawns' = <<>>
    /\ UNCHANGED <<outside, gr, returns, lengths, root, spawned, enqueued>>

\* parse: steal returns None, and parse returns the longest result.
Drain ==
    /\ pc = "loop"
    /\ queue = EmptyBag
    /\ seen' = {}
    /\ root' = LongestResult(EntryCall)
    /\ pc' = "done"
    /\ lastOp' = OpNamed("drain")
    /\ inserted' = FALSE
    /\ lastSpawns' = <<>>
    /\ UNCHANGED <<outside, trace, gr, queue, returns, lengths, rt, taken, ip, spawned,
                   enqueued, stolen, restolen>>

\* The step function returns to the loop of parse.
StepReturn ==
    /\ pc = "step"
    /\ ip \notin DOMAIN gr.prog[rt.current]
    /\ pc' = "loop"
    /\ rt' = NoRt
    /\ taken' = NoNode
    /\ ip' = 0
    /\ lastOp' = OpNamed("return")
    /\ inserted' = FALSE
    /\ lastSpawns' = <<>>
    /\ UNCHANGED <<outside, trace, gr, queue, seen, returns, lengths, root, spawned,
                   enqueued, stolen, restolen>>

(***************************************************************************)
(* The driver API.                                                         *)
(***************************************************************************)
\* The pattern matches the input at the start of the remaining range.
MatchLeft(pat, remaining) ==
    /\ Len(pat) <= RangeLen(remaining)
    /\ \A i \in DOMAIN pat : gr.input[remaining.s + i] = pat[i]

\* The step ends without reaching its next operation.
DeadEnd ==
    /\ pc' = "loop"
    /\ rt' = NoRt
    /\ taken' = NoNode
    /\ ip' = 0

\* Runtime::input_consume_left: on a match the view moves over the pattern;
\* otherwise the step does not continue.
DoConsume ==
    /\ InStep
    /\ CurOp.op = "consume"
    /\ IF MatchLeft(CurOp.pat, rt.remaining)
       THEN /\ rt' = [rt EXCEPT
                       !.result = Range(rt.result.s, rt.result.e + Len(CurOp.pat)),
                       !.remaining = SplitAt(rt.remaining, Len(CurOp.pat))[2]]
            /\ ip' = ip + 1
            /\ UNCHANGED <<pc, taken>>
       ELSE DeadEnd
    /\ lastOp' = CurOp
    /\ inserted' = FALSE
    /\ lastSpawns' = <<>>
    /\ UNCHANGED <<outside, trace, gr, queue, seen, returns, lengths, root, spawned,
                   enqueued, stolen, restolen>>

\* Mutant of DoSave: without the assert_eq! on the old value of the slot.
DoSaveUnchecked ==
    /\ InStep
    /\ CurOp.op = "save"
    /\ rt' = [rt EXCEPT !.saved = SomeNode(CurOp.kind, rt.result),
                        !.result = Frontiers(rt.result)[2]]
    /\ ip' = ip + 1
    /\ lastOp' = CurOp
    /\ inserted' = FALSE
    /\ lastSpawns' = <<>>
    /\ UNCHANGED <<outside, trace, gr, pc, queue, seen, returns, lengths, taken,
                   root, spawned, enqueued, stolen, restolen>>

\* Runtime::save: the node (kind, result) goes to the saved slot, which must
\* be empty, and the result restarts empty at its end.
DoSave ==
    /\ InStep
    /\ CurOp.op = "save"
    /\ IF rt.saved.some
       THEN Abort(CurOp)
       ELSE /\ rt' = [rt EXCEPT
                       !.saved = SomeNode(CurOp.kind, rt.result),
                       !.result = Frontiers(rt.result)[2]]
            /\ ip' = ip + 1
            /\ lastOp' = CurOp
            /\ inserted' = FALSE
            /\ lastSpawns' = <<>>
            /\ UNCHANGED <<outside, trace, gr, pc, queue, seen, returns, lengths, taken, root,
                           spawned, enqueued, stolen, restolen>>

\* Runtime::take_saved: the node leaves the saved slot, which must be set.
DoTakeSaved ==
    /\ InStep
    /\ CurOp.op = "take_saved"
    /\ IF ~rt.saved.some
       THEN Abort(CurOp)
       ELSE /\ taken' = rt.saved
            /\ rt' = [rt EXCEPT !.saved = NoNode]
            /\ ip' = ip + 1
            /\ lastOp' = CurOp
            /\ inserted' = FALSE
            /\ lastSpawns' = <<>>
            /\ UNCHANGED <<outside, trace, gr, pc, queue, seen, returns, lengths, root,
                           spawned, enqueued, stolen, restolen>>

\* Runtime::forest_add_split(kind, left), with the node take_saved returned:
\* the result grows to the left over the node.
DoAddSplit ==
    /\ InStep
    /\ CurOp.op = "forest_add_split"
    /\ taken.some
    /\ IF ~JoinOk(taken.range, rt.result)
       THEN Abort(CurOp)
       ELSE /\ rt' = [rt EXCEPT !.result = Join(taken.range, rt.result)]
            /\ taken' = NoNode
            /\ ip' = ip + 1
            /\ lastOp' = CurOp
            /\ inserted' = FALSE
            /\ lastSpawns' = <<>>
            /\ UNCHANGED <<outside, trace, gr, pc, queue, seen, returns, lengths, root,
                           spawned, enqueued, stolen, restolen>>

\* Runtime::spawn: a thread at label next with the view of this step.
DoSpawn ==
    /\ InStep
    /\ CurOp.op = "spawn"
    /\ Emit(<<Call(Continuation(CurOp.next, rt.saved, rt.result), rt.remaining)>>)
    /\ ip' = ip + 1
    /\ lastOp' = CurOp
    /\ inserted' = FALSE
    /\ UNCHANGED <<outside, gr, pc, returns, lengths, rt, taken, root, stolen, restolen>>

\* Mutant of Replayed: the whole range of the call stays remaining.
ReplayedKeepsRange(call, next, len) ==
    Call([next EXCEPT !.result = Join(next.result, SplitAt(call.range, len)[1])],
         call.range)

\* next with its result extended by the len-prefix of the range of call.
Replayed(call, next, len) ==
    Call([next EXCEPT !.result = Join(next.result, SplitAt(call.range, len)[1])],
         SplitAt(call.range, len)[2])

\* The replay branch of call: one thread per memoized length, ascending.
ReplaySpawns(call, next) ==
    LET ls == LengthsAsc(LengthsOf(call))
    IN  [i \in DOMAIN ls |-> Replayed(call, next, ls[i])]

\* split_at and join(..).unwrap() of the replay branch do not abort.
ReplayOk(call, next) ==
    \A len \in LengthsOf(call) :
        /\ SplitOk(call.range, len)
        /\ JoinOk(next.result, SplitAt(call.range, len)[1])

\* Mutant of CallSpawns: the value of returns.insert(next) is ignored.
CallSpawnsUnchecked(call, next, old) ==
    IF Cardinality(old \cup {next}) > 1
    THEN ReplaySpawns(call, next)
    ELSE <<EntryThread(call)>>

\* Mutant of CallSpawns: a later caller spawns the callee again.
CallSpawnsCalleeAgain(call, next, old) ==
    IF next \in old
    THEN <<>>
    ELSE IF Cardinality(old \cup {next}) > 1
         THEN ReplaySpawns(call, next) \o <<EntryThread(call)>>
         ELSE <<EntryThread(call)>>

\* What call passes to Threads::spawn, given the set of returns before the
\* insertion of next.
CallSpawns(call, next, old) ==
    IF next \in old
    THEN <<>>
    ELSE IF Cardinality(old \cup {next}) > 1
         THEN ReplaySpawns(call, next)
         ELSE <<EntryThread(call)>>

\* Runtime::call
DoCall ==
    /\ InStep
    /\ CurOp.op = "call"
    /\ LET call == Call(CurOp.callee, rt.remaining)
           next == Continuation(CurOp.next, rt.saved, rt.result)
           old  == ReturnsOf(call)
       IN  IF next \notin old /\ old # {} /\ ~ReplayOk(call, next)
           THEN Abort(CurOp)
           ELSE /\ returns' = [c \in DOMAIN returns \cup {call} |->
                                 IF c = call THEN old \cup {next} ELSE returns[c]]
                /\ Emit(CallSpawns(call, next, old))
                /\ inserted' = (next \notin old)
                /\ ip' = ip + 1
                /\ lastOp' = CurOp
                /\ UNCHANGED <<outside, gr, pc, lengths, rt, taken, root, stolen, restolen>>

\* Mutant of Returned: the thread gets the whole range of the call.
ReturnedAtCall(next, call_result, remaining) ==
    Call([next EXCEPT !.result = Join(next.result, call_result)],
         Join(call_result, remaining))

\* next with its result extended by the result of the returning call.
Returned(next, call_result, remaining) ==
    Call([next EXCEPT !.result = Join(next.result, call_result)], remaining)

\* The fan-out of ret: one thread per registered continuation, ascending.
RetSpawns(call, call_result, remaining) ==
    LET cs == ContsAsc(ReturnsOf(call))
    IN  [i \in DOMAIN cs |-> Returned(cs[i], call_result, remaining)]

\* Mutant of RetEmits: every ret fans out, new length or not.
RetEmitsAlways(call, new, call_result, remaining) ==
    RetSpawns(call, call_result, remaining)

\* What ret passes to Threads::spawn, given whether the length is new.
RetEmits(call, new, call_result, remaining) ==
    IF new THEN RetSpawns(call, call_result, remaining) ELSE <<>>

\* Runtime::ret
DoRet ==
    /\ InStep
    /\ CurOp.op = "ret"
    /\ LET call_result == rt.result
           remaining   == rt.remaining
           call == Call(gr.fn[rt.current], Join(call_result, remaining))
           len  == RangeLen(call_result)
           new  == len \notin LengthsOf(call)
       IN  IF \/ ~JoinOk(call_result, remaining)
              \/ new /\ \E next \in ReturnsOf(call) : ~JoinOk(next.result, call_result)
           THEN Abort(CurOp)
           ELSE /\ lengths' = [c \in DOMAIN lengths \cup {call} |->
                                 IF c = call THEN LengthsOf(call) \cup {len}
                                 ELSE lengths[c]]
                /\ Emit(RetEmits(call, new, call_result, remaining))
                /\ inserted' = new
                /\ ip' = ip + 1
                /\ lastOp' = CurOp
                /\ UNCHANGED <<outside, gr, pc, returns, rt, taken, root, stolen, restolen>>

Next ==
    \/ ParseStart
    \/ Steal
    \/ Drain
    \/ StepReturn
    \/ DoConsume
    \/ DoSave
    \/ DoTakeSaved
    \/ DoAddSplit
    \/ DoSpawn
    \/ DoCall
    \/ DoRet

Spec == Init /\ [][Next]_vars

\* The grammars of the scenarios, whose steps are generated from a grammar.
Scenarios == {GAlt, GNull, GExpr, GOne, GShared, GDedup}

ScenarioSpec == InitWith(Scenarios) /\ [][Next]_vars

\* The grammars written out above, without the family of small steps.
Named ==
    {GAlt, GNull, GExpr, GOne, GShared, GDedup, GLate, GAfter, GSelf, GLoop,
     GSaveTwice, GTakeEmpty}

\* The loop of parse keeps running while it can.
FairSpec == InitWith(Named) /\ [][Next]_vars /\ WF_vars(Next)

\* parse is called again with the same step functions, input and entry
\* label, after it has returned: a new RuntimeState, with new HashMaps.
ParseAgain ==
    /\ pc = "done"
    /\ ~first.ran
    /\ first' = [ran |-> TRUE, trace |-> trace, restolen |-> restolen,
                 returns |-> returns, lengths |-> lengths, root |-> root]
    /\ seed' \in HashSeeds
    /\ pc' = "start"
    /\ queue' = EmptyBag
    /\ seen' = {}
    /\ returns' = << >>
    /\ lengths' = << >>
    /\ rt' = NoRt
    /\ taken' = NoNode
    /\ ip' = 0
    /\ root' = NoNode
    /\ lastOp' = OpNamed("new")
    /\ lastSpawns' = <<>>
    /\ inserted' = FALSE
    /\ spawned' = {}
    /\ enqueued' = {}
    /\ stolen' = {}
    /\ restolen' = {}
    /\ trace' = <<>>
    /\ UNCHANGED <<gr, product, iter, yielded>>

ParseTwiceNext == Next \/ ParseAgain

\* Two parses of the same arguments, one after the other.
ParseTwiceSpec == InitWith(Scenarios \cup {GLate}) /\ [][ParseTwiceNext]_vars

\* The state of a parse, which no step of a cursor changes.
parsing == <<gr, pc, queue, seen, returns, lengths, rt, taken, ip, root,
             lastOp, lastSpawns, inserted, spawned, enqueued, stolen, restolen,
             trace, seed, first>>

\* Product::new(a, b).into_iter(), a and b at their first positions.
ProductNew ==
    /\ iter = "unmade"
    /\ \E m, n \in 1..MaxPos : product' = Product(Flat(m), Flat(n))
    /\ iter' = "some"
    /\ yielded' = <<>>
    /\ UNCHANGED parsing

\* IntoIter::next on a cursor that is left: read, advance, and drop the
\* cursor when advance returns false.
IterNext ==
    /\ iter = "some"
    /\ yielded' = Append(yielded, ProductRead(product))
    /\ LET adv == ProductAdvance(product)
       IN  /\ product' = adv.cur
           /\ iter' = IF adv.ok THEN "some" ELSE "none"
    /\ UNCHANGED parsing

CursorNext == ProductNew \/ IterNext

\* The iteration of a product of two cursors.
CursorSpec == InitWith({GOne}) /\ [][CursorNext]_vars

(***************************************************************************)
(* Properties.                                                             *)
(***************************************************************************)
\* C1: during one parse no thread (continuation, remaining range) is
\* dispatched by the steal loop more than once.
NoThreadDispatchedTwice == restolen = {}

\* C2: the dispatch loop of parse terminates: eventually the queue has
\* drained and parse has returned (or the parse has aborted).
ParseTerminates == <>(pc \in {"done", "aborted"})

\* C3: when the queue has drained, for every call k, every length recorded
\* for k and every continuation linked to k, the continuation extended by
\* the prefix of that length has been passed to Threads::spawn with the
\* rest of the range of k.
FanOutComplete ==
    pc = "done" =>
        \A k \in DOMAIN lengths : \A len \in lengths[k] : \A next \in ReturnsOf(k) :
            [callee |-> [code |-> next.code, saved |-> next.saved,
                         result |-> Range(next.result.s, k.range.s + len)],
             range |-> Range(k.range.s + len, k.range.e)] \in spawned

\* C4: when the loop has finished, the lengths memoized for the entry call
\* are the prefix lengths the entry nonterminal derives, whatever the order
\* of the code labels: {1, 2} for S -> "a" | "ab" on "ab", {0, 1, 2} for
\* A -> A "x" | epsilon on "xx", a set with 5 for E -> E "+" E | "1" on
\* "1+1+1", none for S -> "a" on "b".
EntryLengthsExact ==
    pc = "done" =>
        /\ (gr.name = "alt" /\ gr.input = <<"a", "b">>)
               => LengthsOf(EntryCall) = {1, 2}
        /\ (gr.name = "null" /\ gr.input = <<"x", "x">>)
               => LengthsOf(EntryCall) = {0, 1, 2}
        /\ (gr.name = "expr" /\ gr.input = <<"1", "+", "1", "+", "1">>)
               => 5 \in LengthsOf(EntryCall)
        /\ (gr.name = "one" /\ gr.input = <<"b">>)
               => EntryCall \notin DOMAIN lengths

\* C5: parse returns a root node iff the memoizer holds a length for the
\* entry call when the queue has drained; the node has the requested kind
\* and spans the prefix of the greatest recorded length.
RootIsLongest ==
    pc = "done" =>
        /\ root.some <=> (EntryCall \in DOMAIN lengths /\ lengths[EntryCall] # {})
        /\ root.some =>
               /\ root.kind = RootKind
               /\ root.range.s = 0
               /\ RangeLen(root.range) \in lengths[EntryCall]
               /\ \A len \in lengths[EntryCall] : len <= RangeLen(root.range)
        /\ ~root.some => root = NoNode

\* A parse has returned a root where a shorter length was recorded too.
RootIsLongestWitness ==
    /\ pc = "done"
    /\ root.some
    /\ \E len \in LengthsOf(EntryCall) : len < RangeLen(root.range)

\* C6: every thread ever passed to Threads::spawn has
\* continuation.result.end = remaining.start.
SpawnedAdjacent == \A t \in spawned : t.callee.result.e = t.range.s

\* call has replayed a memoized length and ret has fanned out, both
\* moving past consumed input.
SpawnedAdjacentWitness ==
    /\ lastOp.op = "call"
    /\ inserted
    /\ Len(lastSpawns) >= 2
    /\ \E t \in spawned : t.callee.saved.some /\ RangeLen(t.callee.result) > 0

\* C7: ret fans out exactly once per (call, length): the ret that records a
\* new length spawns one thread per continuation registered for the call
\* (its result extended by the call result, the remaining of the returning
\* thread); a ret of a length already recorded spawns nothing and changes
\* neither the scheduler, the GSS nor the memoizer.
RetFansOutOnce ==
    [][ (InStep /\ CurOp.op = "ret" /\ ip' = ip + 1) =>
          LET call == Call(gr.fn[rt.current], Range(rt.result.s, rt.remaining.e))
              len  == rt.result.e - rt.result.s
          IN  IF len \in LengthsOf(call)
              THEN /\ lastSpawns' = <<>>
                   /\ UNCHANGED <<queue, seen, returns, lengths, spawned>>
              ELSE /\ Len(lastSpawns') = Cardinality(ReturnsOf(call))
                   /\ \A next \in ReturnsOf(call) : \E i \in DOMAIN lastSpawns' :
                          lastSpawns'[i] =
                              [callee |-> [code |-> next.code, saved |-> next.saved,
                                           result |-> Range(next.result.s, rt.result.e)],
                               range |-> rt.remaining]
                   /\ lengths'[call] = LengthsOf(call) \cup {len}
                   /\ UNCHANGED returns
      ]_vars

\* ret has found its length recorded already, for a call with registered
\* continuations.
RetFansOutOnceWitness ==
    /\ lastOp.op = "ret"
    /\ pc = "step"
    /\ ~inserted
    /\ ReturnsOf(Call(gr.fn[rt.current], Range(rt.result.s, rt.remaining.e))) # {}

\* C8: call(callee, return_label) whose continuation is already registered
\* for (callee, remaining) is a no-op: nothing is spawned, and the scheduler,
\* the GSS and the memoizer are unchanged.
CallPresentIsNoOp ==
    [][ (/\ InStep
         /\ CurOp.op = "call"
         /\ ip' = ip + 1
         /\ Continuation(CurOp.next, rt.saved, rt.result)
                \in ReturnsOf(Call(CurOp.callee, rt.remaining)))
        => /\ lastSpawns' = <<>>
           /\ UNCHANGED <<queue, seen, returns, lengths, spawned>>
      ]_vars

\* call has found its continuation registered already.
CallPresentWitness ==
    /\ lastOp.op = "call"
    /\ pc = "step"
    /\ ~inserted

\* C9: call that adds a new continuation to a non-empty set of returns
\* does not spawn the entry thread of the callee: its spawns are one per
\* memoized length of the call, the continuation extended by the prefix of
\* that length with the rest of the range remaining (none when no length
\* is memoized).
CallReplaysLengths ==
    [][ (/\ InStep
         /\ CurOp.op = "call"
         /\ ip' = ip + 1
         /\ ReturnsOf(Call(CurOp.callee, rt.remaining)) # {}
         /\ Continuation(CurOp.next, rt.saved, rt.result)
                \notin ReturnsOf(Call(CurOp.callee, rt.remaining)))
        => LET call == Call(CurOp.callee, rt.remaining)
           IN  /\ Len(lastSpawns') = Cardinality(LengthsOf(call))
               /\ \A len \in LengthsOf(call) : \E i \in DOMAIN lastSpawns' :
                      lastSpawns'[i] =
                          [callee |-> [code |-> CurOp.next, saved |-> rt.saved,
                                       result |-> Range(rt.result.s,
                                                        rt.remaining.s + len)],
                           range |-> Range(rt.remaining.s + len, rt.remaining.e)]
               /\ returns'[call] =
                      ReturnsOf(call) \cup {Continuation(CurOp.next, rt.saved, rt.result)}
               /\ UNCHANGED lengths
      ]_vars

\* call has replayed two memoized lengths to a new continuation.
CallReplaysWitness ==
    /\ lastOp.op = "call"
    /\ pc = "step"
    /\ inserted
    /\ Len(lastSpawns) >= 2

\* C10: for each call (callee, range), the entry thread of the callee is
\* dispatched at most once per parse, the entry call of parse included.
EntryThreadDispatchedOnce ==
    \A k \in DOMAIN returns \cup {EntryCall} :
        [callee |-> [code |-> k.callee, saved |-> NoNode,
                     result |-> Range(k.range.s, k.range.s)],
         range |-> k.range] \notin restolen

\* C11 as stated: the thread steal returns has the latest remaining range,
\* the greatest in the (start, end) order, among the pending threads.
StealReturnsLatestRange ==
    [][ (pc = "loop" /\ pc' = "step") =>
          \A t \in BagToSet(queue) : ~RangeLess(rt'.remaining, t.range)
      ]_vars

\* C11, amended: the thread steal returns is a pending thread whose
\* remaining range is the earliest, the least in the (start, end) order,
\* among the pending threads; steal returns None, ending the loop of parse,
\* only when no thread is pending, and returns a thread whenever one is.
StealReturnsEarliestRange ==
    [][ /\ (pc = "loop" /\ pc' = "step") =>
              /\ \E t \in BagToSet(queue) :
                     /\ rt' = [current |-> t.callee.code, saved |-> t.callee.saved,
                               result |-> t.callee.result, remaining |-> t.range]
                     /\ CopiesIn(t, queue') = CopiesIn(t, queue) - 1
              /\ \A t \in BagToSet(queue) : ~RangeLess(t.range, rt'.remaining)
        /\ (pc = "loop" /\ pc' = "done") => queue = EmptyBag
        /\ (pc = "loop" /\ queue # EmptyBag) => pc' # "done"
      ]_vars

\* steal has returned a thread while a thread of a later range is pending.
StealReturnsEarliestWitness ==
    /\ lastOp.op = "steal"
    /\ \E t \in BagToSet(queue) : RangeLess(rt.remaining, t.range)

\* C12 as stated: among the pending threads of its remaining range, the
\* thread steal returns has the smallest continuation in the
\* (code, saved, result) order.
StealReturnsSmallestContinuation ==
    [][ (pc = "loop" /\ pc' = "step") =>
          \A t \in BagToSet(queue) :
              t.range = rt'.remaining =>
                  ~ContLess(t.callee,
                            Continuation(rt'.current, rt'.saved, rt'.result))
      ]_vars

\* C12, amended: among the pending threads of its remaining range, the
\* thread steal returns has the greatest continuation in the
\* (code, saved, result) order.
StealReturnsGreatestContinuation ==
    [][ (pc = "loop" /\ pc' = "step") =>
          \A t \in BagToSet(queue) :
              t.range = rt'.remaining =>
                  ~ContLess(Continuation(rt'.current, rt'.saved, rt'.result),
                            t.callee)
      ]_vars

\* steal has returned a thread while a thread of the same range and a
\* smaller continuation is pending.
StealReturnsGreatestWitness ==
    /\ lastOp.op = "steal"
    /\ \E t \in BagToSet(queue) :
           /\ t.range = rt.remaining
           /\ ContLess(t.callee, Continuation(rt.current, rt.saved, rt.result))

SavedSlotChecked ==
    [][ /\ (InStep /\ CurOp.op = "save") =>
              IF rt.saved.some
              THEN pc' = "aborted"
              ELSE /\ pc' = "step"
                   /\ rt'.saved = [some |-> TRUE, kind |-> CurOp.kind,
                                   range |-> rt.result]
                   /\ rt'.result = Range(rt.result.e, rt.result.e)
                   /\ rt'.remaining = rt.remaining
        /\ (InStep /\ CurOp.op = "take_saved") =>
              IF rt.saved.some
              THEN /\ pc' = "step"
                   /\ taken' = rt.saved
                   /\ ~rt'.saved.some
                   /\ rt'.result = rt.result
              ELSE pc' = "aborted"
        /\ pc = "aborted" => pc' = "aborted"
      ]_vars

\* A parse has aborted in a save that found the slot set.
SavedSlotCheckedWitness ==
    /\ pc = "aborted"
    /\ lastOp.op = "save"
    /\ rt.saved.some

\* C15: the iteration of Product(a, b), a of m positions and b of n, yields
\* the m * n combinations, each once, b varying fastest: the k-th item is
\* (position (k - 1) \div n + 1 of a, position (k - 1) % n + 1 of b);
\* advance steps b while b can advance, otherwise resets b to b0 and
\* advances a, and it returns false (the iteration ends) exactly after the
\* m * n-th item has been read.
ProductEnumerates ==
    iter # "unmade" =>
        LET m == product.a.len
            n == product.b0.len
        IN  /\ \A k \in DOMAIN yielded :
                   yielded[k] = <<((k - 1) \div n) + 1, ((k - 1) % n) + 1>>
            /\ Len(yielded) <= m * n
            /\ iter = "none" <=> Len(yielded) = m * n
            /\ iter = "some" =>
                   ProductRead(product) =
                       <<(Len(yielded) \div n) + 1, (Len(yielded) % n) + 1>>
            /\ product.b0 = Flat(n)

\* The iteration of a product of cursors of more than one position each
\* has ended.
ProductEnumeratesWitness ==
    /\ iter = "none"
    /\ product.a.len >= 2
    /\ product.b0.len >= 3
    /\ Len(yielded) = product.a.len * product.b0.len

\* C16: every thread pending in queue is an element of seen and is in
\* queue only once.
PendingAreSeen ==
    \A t \in BagToSet(queue) : t \in seen /\ CopiesIn(t, queue) = 1

\* C17: the entries steal removes from seen when it returns a thread t are
\* entries whose range starts before the start of the range of t; the entry
\* of t itself and every entry starting at or after it stay.
StealCollectsOlderOnly ==
    [][ (pc = "loop" /\ pc' = "step") =>
          /\ \A old \in seen \ seen' : old.range.s < rt'.remaining.s
          /\ [callee |-> [code |-> rt'.current, saved |-> rt'.saved,
                          result |-> rt'.result],
              range |-> rt'.remaining] \in seen'
      ]_vars

\* C18: the frontier only moves forward: the thread steal returns does not
\* start before any thread stolen earlier, and every thread passed to
\* Threads::spawn while a step runs starts at or after the start of the
\* thread being dispatched (the latest start among the threads stolen).
FrontierMovesForward ==
    [][ /\ (pc = "loop" /\ pc' = "step") =>
              \A u \in stolen : u.range.s <= rt'.remaining.s
        /\ pc = "step" =>
              \A i \in DOMAIN lastSpawns' : \A u \in stolen :
                  u.range.s <= lastSpawns'[i].range.s
      ]_vars

\* steal has returned a thread that starts after an earlier one, and the
\* step of a thread starting after the first has spawned.
FrontierMovesForwardWitness ==
    /\ pc = "step"
    /\ lastSpawns # <<>>
    /\ \E u \in stolen : u.range.s < rt.remaining.s
    /\ \E u \in stolen : 0 < u.range.s /\ u.range.s < rt.remaining.s

\* C19: every continuation next in returns[call] has next.result.end =
\* call.range.start, and every length in lengths[call] is at most the length
\* of call.range; no parse aborts in call or in ret, whose join(..).unwrap()
\* and split_at(len) therefore succeed.
LinksAndLengthsFit ==
    /\ \A call \in DOMAIN returns : \A next \in returns[call] :
           next.result.e = call.range.s
    /\ \A call \in DOMAIN lengths : \A len \in lengths[call] :
           len <= call.range.e - call.range.s
    /\ pc = "aborted" => lastOp.op \notin {"call", "ret"}

\* A call has replayed a recorded length of more than zero to a
\* continuation that had consumed input, after a ret has fanned that length
\* out to another continuation that had.
LinksAndLengthsFitWitness ==
    /\ lastOp.op = "call"
    /\ inserted
    /\ rt.result.s < rt.result.e
    /\ \E i \in DOMAIN lastSpawns : lastSpawns[i].range.s > rt.remaining.s
    /\ \E c \in DOMAIN returns : \E next \in returns[c] :
           /\ next.result.s < next.result.e
           /\ \E len \in LengthsOf(c) : len > 0

====
